---- MODULE Spec2Model ----
(***************************************************************************)
(* A model of the news analyzer: the multi-provider fetch dispatcher with  *)
(* its two provider clients (news_analyzer/api_client.py and the earlier   *)
(* single-file copy in main.py), the utility transforms over article       *)
(* collections (news_analyzer/utils.py) and the analysis forwarder          *)
(* (news_analyzer/groqai.py and its copy openai.py).                        *)
(*                                                                         *)
(* Python values are modelled as follows.                                  *)
(*   - In the dispatcher, texts (provider names, keys, queries) are TLA+   *)
(*     strings and timeouts/retry counts are integers; a dict of keyword   *)
(*     arguments is a function from key names to values.                   *)
(*   - In the utility transforms, where the characters of a text matter    *)
(*     (strip, lower, len), a value is a one-field record: [none |-> TRUE] *)
(*     for None, [str |-> s] for a text with s its sequence of characters, *)
(*     [int |-> n] for an integer and [dict |-> d] for a dict with d a     *)
(*     function from key names to values.                                  *)
(***************************************************************************)
EXTENDS Integers, Sequences, FiniteSets, TLC

VARIABLES
    pc,        \* position of the running call: "idle", "urlopen" or "done"
    call,      \* the call the caller made: function, arguments, options
    invoked,   \* the provider clients invoked by the call, in order
    requests,  \* the HTTP GETs issued by the call, in order
    answers,   \* what urlopen answered to those GETs, in order
    outcome,   \* how the call ended: nothing yet, a returned value or a raised error
    heap,      \* the article records (mutable dicts) by reference
    articles,  \* the caller's article collection: a list of references
    text,      \* the successive texts of a clean_text chain
    context,   \* the context block the analysis forwarder built, None before
    stdout     \* what the analysis forwarder printed, in order

vars == <<pc, call, invoked, requests, answers, outcome, heap, articles, text,
          context, stdout>>

-----------------------------------------------------------------------------
(* Bounds of the model.                                                    *)

\* longest positional-argument list a caller passes to the dispatcher
MaxArgs == 3

-----------------------------------------------------------------------------
(* Outcomes of a call.                                                     *)

NoOutcome == [kind |-> "none"]

Return(v) == [kind |-> "return", value |-> v]

\* msg is the sequence of the message's parts (literal pieces and
\* interpolated values), so that "the message contains x" can be stated
Raise(e, m) == [kind |-> "raise", exc |-> e, msg |-> m]

Returned(o) == o.kind = "return"

Raised(o, e) == o.kind = "raise" /\ o.exc = e

\* dict overlay {**a, **b}: the keys of both, b's value on a key of both
Overlay(a, b) ==
    [k \in (DOMAIN a) \cup (DOMAIN b) |-> IF k \in DOMAIN b THEN b[k] ELSE a[k]]

-----------------------------------------------------------------------------
(* config.py / main.py constants                                           *)

BASE_URL == "https://newsapi.org/v2/everything"

\* the fixed message of the APIKeyError raised by newsapi_client
APIKeyErrorMessage == <<"Ocurrió un error, no se pudo conectar con la API.">>

-----------------------------------------------------------------------------
(* Python's binding of a call's arguments to a function's parameters.      *)

\* the parameter lists of the two clients; the first `required` have no default
newsapi_params == <<"api_key", "query", "timeout", "retries">>

guardian_params == <<"api_key", "section", "from_date", "timeout", "retries">>

client_params(client) ==
    IF client = "newsapi_client" THEN newsapi_params ELSE guardian_params

client_required(client) == IF client = "newsapi_client" THEN 2 ELSE 3

\* the defaults timeout=30, retries=3 of both signatures
client_defaults == [timeout |-> 30, retries |-> 3]

ParamIndex(params, p) == CHOOSE i \in 1..Len(params) : params[i] = p

\* the call binds: not too many positionals, no unknown keyword, no parameter
\* given twice, no required parameter left out (otherwise Python raises TypeError
\* before the function body runs)
BindOk(params, required, args, kwargs) ==
    /\ Len(args) <= Len(params)
    /\ \A k \in DOMAIN kwargs : \E i \in 1..Len(params) : params[i] = k
    /\ \A i \in 1..Len(args) : i <= Len(params) => params[i] \notin DOMAIN kwargs
    /\ \A i \in 1..required : i <= Len(args) \/ params[i] \in DOMAIN kwargs

\* the bound parameters of a call that binds
Bound(params, args, kwargs) ==
    [p \in {params[i] : i \in 1..Len(params)} |->
        IF ParamIndex(params, p) <= Len(args) THEN args[ParamIndex(params, p)]
        ELSE IF p \in DOMAIN kwargs THEN kwargs[p]
        ELSE client_defaults[p]]

-----------------------------------------------------------------------------
(* The provider clients.                                                   *)

\* guardian_client: a stub, no network call; returns the f-string
\* "Guardian: {section} desde {from_date} con timeout {timeout}"
guardian_client(b) ==
    Return(<<"Guardian: ", b.section, " desde ", b.from_date,
             " con timeout ", ToString(b.timeout)>>)

\* newsapi_client up to the GET: the URL (base endpoint plus the urlencoded
\* pairs q, apiKey in this order; the percent-encoding of the two values is
\* not modelled) and the timeout handed to urlopen.  retries is not read.
newsapi_request(b) ==
    [url |-> [base |-> BASE_URL,
              query_string |-> <<<<"q", b.query>>, <<"apiKey", b.api_key>>>>],
     timeout |-> b.timeout]

\* what the network can answer to one GET: a 2xx response with a body, an
\* HTTP-level failure with a status, a URL-level failure (DNS, refused
\* connection) or a timeout
HttpErrorStatuses == {304} \cup (400..451) \cup (500..511)

\* a response body: whether it decodes as UTF-8, whether the text is JSON,
\* and the document it then denotes
Bodies ==
    { [utf8 |-> TRUE, json |-> TRUE, doc |-> "articles"],
      [utf8 |-> TRUE, json |-> TRUE, doc |-> "error_status"],
      [utf8 |-> TRUE, json |-> FALSE, doc |-> "html"],
      [utf8 |-> FALSE, json |-> FALSE, doc |-> "bytes"] }

Responses ==
    { [kind |-> "ok", body |-> b] : b \in Bodies }
    \cup { [kind |-> "http_error", status |-> s] : s \in HttpErrorStatuses }
    \cup { [kind |-> "url_error"], [kind |-> "timeout"] }

\* variant without the except clause: the HTTPError reaches the caller
HandleHTTPError_AsRaised(resp) ==
    Raise("HTTPError", <<ToString(resp.status)>>)

\* the except clause of newsapi_client: an HTTPError of any status becomes
\* APIKeyError with the fixed message
HandleHTTPError(resp) == Raise("APIKeyError", APIKeyErrorMessage)

\* newsapi_client from the answer of urlopen on: read, decode, json.loads;
\* only HTTPError is caught
newsapi_outcome(resp) ==
    CASE resp.kind = "http_error" -> HandleHTTPError(resp)
      [] resp.kind = "url_error" -> Raise("URLError", <<>>)
      [] resp.kind = "timeout" -> Raise("TimeoutError", <<>>)
      [] resp.kind = "ok" ->
            IF ~resp.body.utf8 THEN Raise("UnicodeDecodeError", <<>>)
            ELSE IF ~resp.body.json THEN Raise("JSONDecodeError", <<>>)
            ELSE Return(resp.body.doc)

\* variant that honours retries: a failed GET is issued again
newsapi_response_Retrying(resp, reqs, b) ==
    IF resp.kind # "ok" /\ Len(reqs) <= b.retries
    THEN [pc |-> "urlopen", requests |-> Append(reqs, reqs[Len(reqs)]),
          outcome |-> NoOutcome]
    ELSE [pc |-> "done", requests |-> reqs, outcome |-> newsapi_outcome(resp)]

\* the rest of newsapi_client once urlopen has answered: the call ends,
\* whatever the answer and whatever b.retries; no further GET is issued
newsapi_response(resp, reqs, b) ==
    [pc |-> "done", requests |-> reqs, outcome |-> newsapi_outcome(resp)]

\* a client called with args and kwargs, up to its first network call:
\* the invocation, the GETs issued, the outcome if it has ended
call_client(client, args, kwargs) ==
    LET params == client_params(client)
        inv == <<[client |-> client, args |-> args, kwargs |-> kwargs]>>
    IN  IF ~BindOk(params, client_required(client), args, kwargs)
        THEN [invoked |-> inv, requests |-> <<>>, pc |-> "done",
              outcome |-> Raise("TypeError", <<client>>)]
        ELSE IF client = "guardian_client"
        THEN [invoked |-> inv, requests |-> <<>>, pc |-> "done",
              outcome |-> guardian_client(Bound(params, args, kwargs))]
        ELSE [invoked |-> inv,
              requests |-> <<newsapi_request(Bound(params, args, kwargs))>>,
              pc |-> "urlopen", outcome |-> NoOutcome]

-----------------------------------------------------------------------------
(* The fetch dispatcher.                                                   *)

\* variant whose validation has drifted from the registry: it lets "bbc" through
SupportedNames_Drifted == {"news_api", "guardian", "bbc"}

\* the names the dispatcher's validation accepts (api_client.py)
SupportedNames == {"news_api", "guardian"}

\* the provider registry api_clients: name -> client function
api_clients == [news_api |-> "newsapi_client", guardian |-> "guardian_client"]

base_config == [timeout |-> 30, retries |-> 3]

\* variant with the overlay reversed: {**kwargs, **base_config}
merge_config_CallerLoses(kwargs) == Overlay(kwargs, base_config)

\* config = {**base_config, **kwargs}
merge_config(kwargs) == Overlay(base_config, kwargs)

\* a call that ends before any client is invoked
FailEarly(o) == [invoked |-> <<>>, requests |-> <<>>, pc |-> "done", outcome |-> o]

\* client = api_clients[api_name]; return client(*args, **config): the
\* registry lookup raises KeyError on a name that is no key
dispatch(api_name, args, kwargs) ==
    IF api_name \notin DOMAIN api_clients
    THEN FailEarly(Raise("KeyError", <<api_name>>))
    ELSE call_client(api_clients[api_name], args, merge_config(kwargs))

\* api_client.fetch_news: validate the name, merge the configuration, look
\* the client up and invoke it
fetch_news(api_name, args, kwargs) ==
    IF api_name \notin SupportedNames
    THEN FailEarly(Raise("ValueError",
                         <<"Error. API '", api_name, "' no soportada.">>))
    ELSE dispatch(api_name, args, kwargs)

\* main.fetch_news: the same without the validation
main_fetch_news(api_name, args, kwargs) == dispatch(api_name, args, kwargs)

-----------------------------------------------------------------------------
(* The inputs of the dispatcher's callers.                                 *)

ProviderNames == {"news_api", "guardian", "News_API", "bbc", ""}

ArgValues == {"key12345678", "python"}

ArgLists == UNION { [1..n -> ArgValues] : n \in 0..MaxArgs }

IntOptions ==
    UNION { [K -> {5, 30}] : K \in SUBSET {"timeout", "retries"} }

TextOptions ==
    UNION { [K -> {"python"}] :
            K \in SUBSET {"api_key", "query", "section", "language"} }

\* the keyword options of a call: any subset of the keys, timeout and retries
\* with integer values, the others with texts
Options == { Overlay(i, t) : i \in IntOptions, t \in TextOptions }

-----------------------------------------------------------------------------
(* The dispatcher's state machine.                                         *)

NoCall == [fn |-> "none"]

\* the utility transforms' state, untouched by the dispatcher
NoHeap == <<>>

InitFetch ==
    /\ pc = "idle"
    /\ call = NoCall
    /\ invoked = <<>>
    /\ requests = <<>>
    /\ answers = <<>>
    /\ outcome = NoOutcome
    /\ heap = NoHeap
    /\ articles = <<>>
    /\ text = <<>>
    /\ context = [none |-> TRUE]
    /\ stdout = <<>>

Begin(c, r) ==
    /\ call' = c
    /\ pc' = r.pc
    /\ invoked' = r.invoked
    /\ requests' = r.requests
    /\ answers' = <<>>
    /\ outcome' = r.outcome
    /\ UNCHANGED <<heap, articles, text, context, stdout>>

\* a caller calls api_client.fetch_news(name, *args, **kwargs)
FetchNews ==
    /\ pc = "idle"
    /\ \E name \in ProviderNames, args \in ArgLists, kwargs \in Options :
            Begin([module |-> "api_client", fn |-> "fetch_news", name |-> name,
                   args |-> args, kwargs |-> kwargs],
                  fetch_news(name, args, kwargs))

\* a caller calls main.fetch_news(name, *args, **kwargs)
MainFetchNews ==
    /\ pc = "idle"
    /\ \E name \in ProviderNames, args \in ArgLists, kwargs \in Options :
            Begin([module |-> "main", fn |-> "fetch_news", name |-> name,
                   args |-> args, kwargs |-> kwargs],
                  main_fetch_news(name, args, kwargs))

\* a caller calls newsapi_client(*args, **kwargs) directly
NewsapiClient ==
    /\ pc = "idle"
    /\ \E args \in ArgLists, kwargs \in Options :
            Begin([module |-> "api_client", fn |-> "newsapi_client",
                   name |-> "news_api", args |-> args, kwargs |-> kwargs],
                  call_client("newsapi_client", args, kwargs))

\* urlopen answers the pending GET and newsapi_client runs to its end
Urlopen ==
    /\ pc = "urlopen"
    /\ \E resp \in Responses :
          LET inv == invoked[Len(invoked)]
              b == Bound(newsapi_params, inv.args, inv.kwargs)
              r == newsapi_response(resp, requests, b)
          IN  /\ pc' = r.pc
              /\ requests' = r.requests
              /\ answers' = Append(answers, resp)
              /\ outcome' = r.outcome
    /\ UNCHANGED <<call, invoked, heap, articles, text, context, stdout>>

\* the caller has the outcome in hand and is free to call again
Finish ==
    /\ pc = "done"
    /\ call.fn \in {"fetch_news", "newsapi_client"}
    /\ pc' = "idle"
    /\ call' = NoCall
    /\ invoked' = <<>>
    /\ requests' = <<>>
    /\ answers' = <<>>
    /\ outcome' = NoOutcome
    /\ UNCHANGED <<heap, articles, text, context, stdout>>

NextFetch == FetchNews \/ MainFetchNews \/ NewsapiClient \/ Urlopen \/ Finish

SpecFetch == InitFetch /\ [][NextFetch]_vars

-----------------------------------------------------------------------------
(* Claims about the dispatcher and the NewsAPI client.                     *)

\* x is one of the parts of message m
MessageContains(m, x) == \E i \in 1..Len(m) : m[i] = x

\* a fetch_news call (of either module) whose outcome is known
FetchNewsEnded == pc = "done" /\ call.fn = "fetch_news"

\* the last GET of the call ended in an HTTP-level failure
HttpFailed == Len(answers) > 0 /\ answers[Len(answers)].kind = "http_error"

\* C1: a fetch_news call with a provider name other than "news_api" and
\* "guardian" fails with ValueError whose message contains the name, with no
\* client invoked and no GET issued.  Stated of every fetch_news of the
\* repository; main.fetch_news breaks it (KeyError from the registry lookup).
C1_UnsupportedNameRaisesValueError ==
    (FetchNewsEnded /\ call.name \notin {"news_api", "guardian"}) =>
        /\ Raised(outcome, "ValueError")
        /\ MessageContains(outcome.msg, call.name)
        /\ invoked = <<>>
        /\ requests = <<>>

\* C1, of api_client.fetch_news alone: there the claim holds
C1_ApiClientUnsupportedNameRaisesValueError ==
    (FetchNewsEnded /\ call.module = "api_client"
        /\ call.name \notin {"news_api", "guardian"}) =>
        /\ Raised(outcome, "ValueError")
        /\ MessageContains(outcome.msg, call.name)
        /\ invoked = <<>>
        /\ requests = <<>>

\* C2: when fetch_news("news_api", ...) issued its GET and the GET ended in an
\* HTTP-level failure, of whatever status, the call raises exactly APIKeyError
\* with the fixed message: no HTTPError and no returned value.
C2_HttpFailureSurfacesAsAPIKeyError ==
    (FetchNewsEnded /\ call.name = "news_api" /\ HttpFailed) =>
        /\ outcome = Raise("APIKeyError", APIKeyErrorMessage)
        /\ ~Returned(outcome)

C2_Witness ==
    /\ FetchNewsEnded /\ call.name = "news_api" /\ HttpFailed
    /\ answers[1].status = 500
    /\ Raised(outcome, "APIKeyError")

\* C3: for a supported name, fetch_news invokes the selected client once, with
\* the positional arguments unchanged and with keyword options that are the
\* caller's, plus timeout 30 and retries 3 where the caller gave none.
C3_ClientGetsArgsAndMergedConfig ==
    (call.fn = "fetch_news" /\ call.name \in {"news_api", "guardian"}) =>
        /\ Len(invoked) = 1
        /\ invoked[1].client =
              (IF call.name = "news_api" THEN "newsapi_client" ELSE "guardian_client")
        /\ invoked[1].args = call.args
        /\ DOMAIN invoked[1].kwargs = DOMAIN call.kwargs \cup {"timeout", "retries"}
        /\ \A k \in DOMAIN call.kwargs : invoked[1].kwargs[k] = call.kwargs[k]
        /\ "timeout" \notin DOMAIN call.kwargs => invoked[1].kwargs["timeout"] = 30
        /\ "retries" \notin DOMAIN call.kwargs => invoked[1].kwargs["retries"] = 3

C3_Witness ==
    /\ call.fn = "fetch_news" /\ call.name = "guardian"
    /\ DOMAIN call.kwargs = {"timeout", "language"}
    /\ call.kwargs["timeout"] = 5
    /\ Len(call.args) = 2
    /\ Len(invoked) = 1
    /\ invoked[1].kwargs["timeout"] = 5
    /\ invoked[1].kwargs["retries"] = 3
    /\ invoked[1].kwargs["language"] = "python"

\* C4: one call issues at most one GET, whatever retries is and however the
\* GET ends; once a GET has been answered the call is over.
C4_AtMostOneGet ==
    /\ Len(requests) <= 1
    /\ Len(answers) > 0 => (pc = "done" /\ Len(requests) = 1 /\ Len(answers) = 1)

C4_Witness ==
    /\ FetchNewsEnded /\ call.name = "news_api" /\ HttpFailed
    /\ "retries" \in DOMAIN call.kwargs /\ call.kwargs["retries"] = 5
    /\ invoked[1].kwargs["retries"] = 5
    /\ Len(requests) = 1

\* C12: the names api_client.fetch_news validates are exactly the keys of its
\* registry, so a call never ends in the lookup's KeyError: for any name it
\* either raises the validation ValueError with no client invoked, or invokes
\* the client registered under the name.
C12_ValidationMatchesRegistry ==
    /\ SupportedNames = DOMAIN api_clients
    /\ (call.fn = "fetch_news" /\ call.module = "api_client") =>
          /\ ~Raised(outcome, "KeyError")
          /\ \/ Raised(outcome, "ValueError") /\ invoked = <<>>
             \/ /\ call.name \in {"news_api", "guardian"}
                /\ Len(invoked) = 1
                /\ invoked[1].client =
                      (IF call.name = "news_api" THEN "newsapi_client"
                       ELSE "guardian_client")

C12_Witness ==
    /\ FetchNewsEnded /\ call.module = "api_client"
    /\ call.name = "News_API"
    /\ Raised(outcome, "ValueError")
    /\ invoked = <<>>

-----------------------------------------------------------------------------
(* Python values of the utility transforms.                                *)

PyNone == [none |-> TRUE]

PyStr(s) == [str |-> s]

PyInt(n) == [int |-> n]

PyDict(d) == [dict |-> d]

IsNone(v) == DOMAIN v = {"none"}

IsStr(v) == DOMAIN v = {"str"}

IsInt(v) == DOMAIN v = {"int"}

IsDict(v) == DOMAIN v = {"dict"}

\* Python truthiness: None, "", 0 and {} are falsy
Truthy(v) ==
    CASE IsNone(v) -> FALSE
      [] IsStr(v) -> Len(v.str) > 0
      [] IsInt(v) -> v.int # 0
      [] IsDict(v) -> DOMAIN v.dict # {}

\* d.get(k): the value at k, None when k is no key of d
Get(d, k) == IF k \in DOMAIN d THEN d[k] ELSE PyNone

\* the characters of the model's texts
UpperLetters == {"A", "B", "C", "N"}

Whitespace == {" ", "\t", "\n"}

\* str.lower() on one character
LowerChar(c) ==
    CASE c = "A" -> "a"
      [] c = "B" -> "b"
      [] c = "C" -> "c"
      [] c = "N" -> "n"
      [] OTHER -> c

\* str.lower()
Lower(s) == [i \in 1..Len(s) |-> LowerChar(s[i])]

\* variant that cuts at most one whitespace character at each end
Strip_OneEach(s) ==
    LET a == IF Len(s) > 0 /\ s[1] \in Whitespace THEN 2 ELSE 1
        b == IF Len(s) > 0 /\ s[Len(s)] \in Whitespace THEN Len(s) - 1 ELSE Len(s)
    IN  SubSeq(s, a, b)

\* str.strip(): without its leading and trailing whitespace characters
Strip(s) ==
    LET inked == {i \in 1..Len(s) : s[i] \notin Whitespace}
    IN  IF inked = {} THEN <<>>
        ELSE SubSeq(s, CHOOSE i \in inked : \A j \in inked : i <= j,
                       CHOOSE i \in inked : \A j \in inked : i >= j)

\* utils.clean_text: "" for a falsy text, else text.strip().lower()
clean_text(t) == IF ~Truthy(t) THEN PyStr(<<>>) ELSE PyStr(Lower(Strip(t.str)))

-----------------------------------------------------------------------------
(* clean_text applied over and over to a caller's text.                    *)

\* longest text a caller passes to clean_text
MaxTextLen == 3

\* calls of clean_text in one chain
MaxCleanings == 3

TextChars == {"A", "a", " ", "\n"}

Texts == UNION { [1..n -> TextChars] : n \in 0..MaxTextLen }

TextInputs == {PyNone} \cup { PyStr(s) : s \in Texts }

InitText ==
    /\ pc = "idle"
    /\ call = NoCall
    /\ invoked = <<>>
    /\ requests = <<>>
    /\ answers = <<>>
    /\ outcome = NoOutcome
    /\ heap = NoHeap
    /\ articles = <<>>
    /\ context = [none |-> TRUE]
    /\ stdout = <<>>
    /\ \E x \in TextInputs : text = <<x>>

\* the caller passes the latest text to clean_text and keeps the result
CleanText ==
    /\ Len(text) <= MaxCleanings
    /\ text' = Append(text, clean_text(text[Len(text)]))
    /\ UNCHANGED <<pc, call, invoked, requests, answers, outcome, heap, articles,
                   context, stdout>>

NextText == CleanText

SpecText == InitText /\ [][NextText]_vars

\* s without leading and trailing whitespace, described by what is cut off:
\* r is a slice of s, all that is cut is whitespace, and r neither starts
\* nor ends with whitespace
IsTrimOf(r, s) ==
    \E a \in 1..(Len(s) + 1) :
        /\ \A i \in 1..(a - 1) : s[i] \in Whitespace
        /\ a + Len(r) - 1 <= Len(s)
        /\ \A i \in 1..Len(r) : r[i] = s[a + i - 1]
        /\ \A i \in (a + Len(r))..Len(s) : s[i] \in Whitespace
        /\ Len(r) > 0 => (r[1] \notin Whitespace /\ r[Len(r)] \notin Whitespace)

\* r is s with each upper-case letter replaced by its lower-case letter
IsLowerOf(r, s) ==
    /\ Len(r) = Len(s)
    /\ \A i \in 1..Len(s) :
          IF s[i] \in UpperLetters
          THEN <<s[i], r[i]>> \in {<<"A", "a">>, <<"B", "b">>, <<"C", "c">>, <<"N", "n">>}
          ELSE r[i] = s[i]

\* C10: clean_text(clean_text(x)) = clean_text(x) for None, "" and every text;
\* None and "" give ""; any other text gives itself trimmed and lowercased.
C10_CleanTextIdempotent ==
    /\ Len(text) >= 3 => text[3] = text[2]
    /\ Len(text) >= 2 =>
          /\ IsStr(text[2])
          /\ (IsNone(text[1]) \/ text[1] = PyStr(<<>>)) => text[2] = PyStr(<<>>)
          /\ (IsStr(text[1]) /\ text[1] # PyStr(<<>>)) =>
                \E m \in Texts : IsTrimOf(m, text[1].str) /\ IsLowerOf(text[2].str, m)

C10_Witness ==
    /\ Len(text) >= 3
    /\ text[1] = PyStr(<<" ", "A", "\n">>)
    /\ text[2] = PyStr(<<"a">>)
    /\ text[3] = PyStr(<<"a">>)

-----------------------------------------------------------------------------
(* The transforms over article collections.  An article is a dict held on   *)
(* the heap; a collection is a list of references into the heap.            *)

\* the empty dict
EmptyDict == [k \in {} |-> PyNone]

\* a Python set, held as the sequence of its distinct members in insertion
\* order; set.add leaves a set that has the member unchanged
SetAdd(set, x) ==
    IF \E i \in 1..Len(set) : set[i] = x THEN set ELSE Append(set, x)

\* variant of the filter that does not look at source.name
HasSource_NameUnchecked(a) == Truthy(Get(a, "source"))

\* the filter of get_unique_sources:
\* article.get("source") and article.get("source").get("name")
HasSource(a) ==
    /\ Truthy(Get(a, "source"))
    /\ Truthy(Get(Get(a, "source").dict, "name"))

RECURSIVE unique_sources_from(_, _, _, _)
\* the set comprehension of get_unique_sources from position i on
unique_sources_from(h, refs, i, set) ==
    IF i > Len(refs) THEN Return(set)
    ELSE LET a == h[refs[i]]
         IN  IF ~Truthy(Get(a, "source"))
             THEN unique_sources_from(h, refs, i + 1, set)
             ELSE IF ~IsDict(Get(a, "source"))
             THEN Raise("AttributeError", <<"get">>)
             ELSE IF ~HasSource(a)
             THEN unique_sources_from(h, refs, i + 1, set)
             ELSE unique_sources_from(h, refs, i + 1,
                                      SetAdd(set, Get(Get(a, "source").dict, "name")))

\* utils.get_unique_sources
get_unique_sources(h, refs) == unique_sources_from(h, refs, 1, <<>>)

\* variant that compares the names as they are, without lower()
SourceMatches_CaseSensitive(name, source) == name.str = source.str

\* article["source"]["name"].lower() == source.lower()
SourceMatches(name, source) == Lower(name.str) = Lower(source.str)

\* what evaluating article["source"]["name"].lower() raises, "" if nothing
SourceNameError(a) ==
    IF "source" \notin DOMAIN a THEN "KeyError"
    ELSE IF ~IsDict(a["source"]) THEN "TypeError"
    ELSE IF "name" \notin DOMAIN a["source"].dict THEN "KeyError"
    ELSE IF ~IsStr(a["source"].dict["name"]) THEN "AttributeError"
    ELSE ""

\* variant that puts a matching article before the ones already kept
Keep_Prepending(list, ref) == <<ref>> \o list

\* filter yields the matching article after the ones before it
Keep(list, ref) == Append(list, ref)

RECURSIVE articles_by_source_from(_, _, _, _, _)
\* list(filter(lambda ..., articles)) from position i on: the first article
\* on which the lambda raises ends the call with that error
articles_by_source_from(h, refs, source, i, list) ==
    IF i > Len(refs) THEN Return(list)
    ELSE LET a == h[refs[i]]
         IN  IF SourceNameError(a) # ""
             THEN Raise(SourceNameError(a), <<>>)
             ELSE IF SourceMatches(a["source"].dict["name"], source)
             THEN articles_by_source_from(h, refs, source, i + 1, Keep(list, refs[i]))
             ELSE articles_by_source_from(h, refs, source, i + 1, list)

\* utils.get_articles_by_source
get_articles_by_source(h, refs, source) ==
    articles_by_source_from(h, refs, source, 1, <<>>)

-----------------------------------------------------------------------------
(* A caller with an article collection applies the two transforms.         *)

\* most articles in a caller's collection
MaxArticles == 4

BBC == <<"B", "B", "C">>

CNN == <<"C", "N", "N">>

SourceNames == {BBC, <<"b", "b", "c">>, <<"B", "b", "c">>, CNN}

\* {"source": {"name": n}}
ArticleFrom(n) == [k \in {"source"} |-> PyDict([j \in {"name"} |-> n])]

\* the articles a provider response can hold: a named source, a source with
\* an empty, null or missing name, a null source, no source at all
ArticleValues ==
    { ArticleFrom(PyStr(n)) : n \in SourceNames }
    \cup { ArticleFrom(PyStr(<<>>)), ArticleFrom(PyNone),
           [k \in {"source"} |-> PyDict(EmptyDict)],
           [k \in {"source"} |-> PyNone],
           EmptyDict }

Heaps == UNION { [1..n -> ArticleValues] : n \in 0..MaxArticles }

SourceQueries == { PyStr(n) : n \in {BBC, <<"b", "b", "c">>, <<"c", "n", "n">>, <<>>} }

InitSources ==
    /\ pc = "idle"
    /\ call = NoCall
    /\ invoked = <<>>
    /\ requests = <<>>
    /\ answers = <<>>
    /\ outcome = NoOutcome
    /\ heap \in Heaps
    /\ articles = [i \in 1..Len(heap) |-> i]
    /\ text = <<>>
    /\ context = [none |-> TRUE]
    /\ stdout = <<>>

\* the caller calls get_unique_sources(articles)
GetUniqueSources ==
    /\ pc = "idle"
    /\ pc' = "done"
    /\ call' = [fn |-> "get_unique_sources"]
    /\ outcome' = get_unique_sources(heap, articles)
    /\ UNCHANGED <<invoked, requests, answers, heap, articles, text, context, stdout>>

\* the caller calls get_articles_by_source(articles, source)
GetArticlesBySource ==
    /\ pc = "idle"
    /\ \E source \in SourceQueries :
          /\ call' = [fn |-> "get_articles_by_source", source |-> source]
          /\ outcome' = get_articles_by_source(heap, articles, source)
    /\ pc' = "done"
    /\ UNCHANGED <<invoked, requests, answers, heap, articles, text, context, stdout>>

\* the caller has the outcome in hand and is free to call again
Discard ==
    /\ pc = "done"
    /\ pc' = "idle"
    /\ call' = NoCall
    /\ outcome' = NoOutcome
    /\ UNCHANGED <<invoked, requests, answers, heap, articles, text, context, stdout>>

NextSources == GetUniqueSources \/ GetArticlesBySource \/ Discard

SpecSources == InitSources /\ [][NextSources]_vars

-----------------------------------------------------------------------------
(* Claims about the collection transforms.                                 *)

BySourceEnded == pc = "done" /\ call.fn = "get_articles_by_source"

\* the collection BBC, CNN, BBC
NamedArticles == <<ArticleFrom(PyStr(BBC)), ArticleFrom(PyStr(CNN)), ArticleFrom(PyStr(BBC))>>

\* the collection BBC, CNN, BBC, then an article whose source is null
ScenarioArticles == Append(NamedArticles, [k \in {"source"} |-> PyNone])

QueryBbc == PyStr(<<"b", "b", "c">>)

SameIgnoringCase(c, d) ==
    \/ c = d
    \/ \E pair \in {<<"A", "a">>, <<"B", "b">>, <<"C", "c">>, <<"N", "n">>} :
          {c, d} = {pair[1], pair[2]}

EqualIgnoringCase(a, b) ==
    Len(a) = Len(b) /\ \A i \in 1..Len(a) : SameIgnoringCase(a[i], b[i])

\* where the collection holds the reference
Position(ref) == CHOOSE p \in 1..Len(articles) : articles[p] = ref

NameOf(ref) == heap[ref]["source"].dict["name"].str

\* C6: every item get_articles_by_source returns has source.name equal to the
\* requested name ignoring case, the items are in the order of the input
\* collection, and they are all of the input's matching items.
C6_BySourceMatchesInOrder ==
    (BySourceEnded /\ Returned(outcome)) =>
        LET r == outcome.value
        IN  /\ \A i \in 1..Len(r) : EqualIgnoringCase(NameOf(r[i]), call.source.str)
            /\ \A i, j \in 1..Len(r) : i < j => Position(r[i]) < Position(r[j])
            /\ \A p \in 1..Len(articles) :
                  EqualIgnoringCase(NameOf(articles[p]), call.source.str)
                      => \E i \in 1..Len(r) : r[i] = articles[p]

C6_Witness ==
    /\ BySourceEnded /\ Returned(outcome)
    /\ call.source = QueryBbc
    /\ Len(heap) = 3
    /\ NameOf(1) = <<"B", "b", "c">> /\ NameOf(2) = CNN /\ NameOf(3) = BBC
    /\ outcome.value = <<1, 3>>

\* the article has a source that is a non-empty dict with a non-empty text name
HasNamedSource(a) ==
    /\ "source" \in DOMAIN a
    /\ IsDict(a["source"])
    /\ "name" \in DOMAIN a["source"].dict
    /\ IsStr(a["source"].dict["name"])
    /\ a["source"].dict["name"] # PyStr(<<>>)

\* C7: get_unique_sources returns, without an error, a set with no name
\* twice, each member the non-empty name of an article that has a source;
\* articles without source or name contribute nothing.
C7_UniqueSourcesSkipsUnnamed ==
    (pc = "done" /\ call.fn = "get_unique_sources") =>
        /\ Returned(outcome)
        /\ LET r == outcome.value
            IN  /\ \A i, j \in 1..Len(r) : i # j => r[i] # r[j]
                /\ \A i \in 1..Len(r) :
                      /\ IsStr(r[i]) /\ r[i] # PyStr(<<>>)
                      /\ \E p \in 1..Len(articles) :
                            /\ HasNamedSource(heap[articles[p]])
                            /\ heap[articles[p]]["source"].dict["name"] = r[i]
                /\ \A p \in 1..Len(articles) :
                      HasNamedSource(heap[articles[p]]) =>
                          \E i \in 1..Len(r) :
                              r[i] = heap[articles[p]]["source"].dict["name"]

C7_Witness ==
    /\ pc = "done" /\ call.fn = "get_unique_sources"
    /\ heap = <<ArticleFrom(PyStr(BBC)), [k \in {"source"} |-> PyNone],
                ArticleFrom(PyStr(BBC)), ArticleFrom(PyStr(<<>>))>>
    /\ outcome = Return(<<PyStr(BBC)>>)

-----------------------------------------------------------------------------
(* Reading time.                                                           *)

\* characters read per minute
CharsPerMinute == 200

\* variant that rounds the quotient up instead of adding one
reading_minutes_RoundedUp(n) == (n + CharsPerMinute - 1) \div CharsPerMinute

\* minutes = len(article["content"]) // 200 + 1
reading_minutes(n) == n \div CharsPerMinute + 1

\* len(x) for a text or a dict; -1 where Python raises TypeError (None, int)
PyLen(v) ==
    CASE IsStr(v) -> Len(v.str)
      [] IsDict(v) -> Cardinality(DOMAIN v.dict)
      [] OTHER -> -1

\* variant that sets reading_time on a copy of the record and returns the copy
get_reading_time_OnCopy(h, ref) ==
    IF "content" \notin DOMAIN h[ref]
    THEN [heap |-> h, outcome |-> Raise("KeyError", <<"content">>)]
    ELSE IF PyLen(h[ref]["content"]) < 0
    THEN [heap |-> h, outcome |-> Raise("TypeError", <<"len">>)]
    ELSE [heap |-> Append(h, Overlay(h[ref],
                     [reading_time |-> PyInt(reading_minutes(PyLen(h[ref]["content"])))])),
          outcome |-> Return(Len(h) + 1)]

\* utils.get_reading_time on the article at ref: the heap it leaves and the
\* reference it returns (article["reading_time"] = minutes; return article)
get_reading_time(h, ref) ==
    IF "content" \notin DOMAIN h[ref]
    THEN [heap |-> h, outcome |-> Raise("KeyError", <<"content">>)]
    ELSE IF PyLen(h[ref]["content"]) < 0
    THEN [heap |-> h, outcome |-> Raise("TypeError", <<"len">>)]
    ELSE [heap |-> [h EXCEPT ![ref] = Overlay(h[ref],
                     [reading_time |-> PyInt(reading_minutes(PyLen(h[ref]["content"])))])],
          outcome |-> Return(ref)]

\* longest article content
MaxContentLen == 500

\* a text of n characters
TextOfLen(n) == PyStr([i \in 1..n |-> "A"])

\* an article's content: a text of any length up to the bound, None (as
\* providers send for a missing body), or no content key at all
Contents == { TextOfLen(n) : n \in 0..MaxContentLen } \cup {PyNone}

ArticlesWithContent ==
    { [k \in {"title", "content"} |->
          IF k = "title" THEN PyStr(<<"A", "b">>) ELSE c] : c \in Contents }
    \cup { [k \in {"title"} |-> PyStr(<<"A", "b">>)] }

\* the second article of the caller's collection
OtherArticle ==
    [k \in {"title", "content"} |->
        IF k = "title" THEN PyStr(<<"C", "c">>) ELSE TextOfLen(3)]

InitReading ==
    /\ pc = "idle"
    /\ call = NoCall
    /\ invoked = <<>>
    /\ requests = <<>>
    /\ answers = <<>>
    /\ outcome = NoOutcome
    /\ \E a \in ArticlesWithContent : heap = <<a, OtherArticle>>
    /\ articles = <<1, 2>>
    /\ text = <<>>
    /\ context = [none |-> TRUE]
    /\ stdout = <<>>

\* the caller calls get_reading_time on one article of its collection
GetReadingTime ==
    /\ pc = "idle"
    /\ \E p \in 1..Len(articles) :
          LET r == get_reading_time(heap, articles[p])
          IN  /\ call' = [fn |-> "get_reading_time", ref |-> articles[p]]
              /\ heap' = r.heap
              /\ outcome' = r.outcome
    /\ pc' = "done"
    /\ UNCHANGED <<invoked, requests, answers, articles, text, context, stdout>>

NextReading == GetReadingTime \/ Discard

SpecReading == InitReading /\ [][NextReading]_vars

ReadingTimeEnded == pc = "done" /\ call.fn = "get_reading_time"

\* C8: for a content text c, get_reading_time sets reading_time to
\* len(c) // 200 + 1: at least 1, the m with 200(m-1) <= len(c) < 200m;
\* length 0 gives 1, length 200 gives 2, length 500 gives 3.
C8_ReadingTimeIsLenDiv200Plus1 ==
    (ReadingTimeEnded /\ "content" \in DOMAIN heap[call.ref]
        /\ IsStr(heap[call.ref]["content"])) =>
        /\ Returned(outcome)
        /\ "reading_time" \in DOMAIN heap[call.ref]
        /\ IsInt(heap[call.ref]["reading_time"])
        /\ LET m == heap[call.ref]["reading_time"].int
                n == Len(heap[call.ref]["content"].str)
            IN  /\ m = n \div 200 + 1
                /\ m >= 1
                /\ 200 * (m - 1) <= n /\ n < 200 * m
                /\ n = 0 => m = 1
                /\ n = 200 => m = 2
                /\ n = 500 => m = 3

C8_Witness ==
    /\ ReadingTimeEnded /\ call.ref = 1
    /\ "content" \in DOMAIN heap[1] /\ IsStr(heap[1]["content"])
    /\ Len(heap[1]["content"].str) = 500
    /\ heap[1]["reading_time"] = PyInt(3)

\* C9: a get_reading_time call that returns, returns the reference it was
\* given; no record is created; the record gains or updates reading_time and
\* keeps every other field; the other records and the caller's collection are
\* untouched, so the collection's entry for the record shows the new field.
C9_ReadingTimeMutatesInPlace ==
    [][(pc = "idle" /\ pc' = "done" /\ call'.fn = "get_reading_time"
            /\ Returned(outcome')) =>
        /\ outcome'.value = call'.ref
        /\ DOMAIN heap' = DOMAIN heap
        /\ \A r \in DOMAIN heap : r # call'.ref => heap'[r] = heap[r]
        /\ DOMAIN heap'[call'.ref] = DOMAIN heap[call'.ref] \cup {"reading_time"}
        /\ \A k \in DOMAIN heap[call'.ref] :
              k # "reading_time" => heap'[call'.ref][k] = heap[call'.ref][k]
        /\ articles' = articles
        /\ \E p \in 1..Len(articles') :
              /\ articles'[p] = call'.ref
              /\ "reading_time" \in DOMAIN heap'[articles'[p]]]_vars

C9_Witness ==
    /\ ReadingTimeEnded /\ call.ref = 1 /\ Returned(outcome)
    /\ outcome.value = 1
    /\ Len(heap) = 2
    /\ "reading_time" \in DOMAIN heap[articles[1]]
    /\ heap[1]["title"] = PyStr(<<"A", "b">>)
    /\ "reading_time" \notin DOMAIN heap[2]

-----------------------------------------------------------------------------
(* The analysis forwarder (groqai.py; openai.py holds the same function).  *)

\* articles[:10]: how many articles the context is built from
MaxContextArticles == 10

\* article['description'][:100]: how many characters of a description
MaxDescriptionChars == 100

\* the slice s[:n] of a text or a list
Slice(s, n) == SubSeq(s, 1, IF Len(s) < n THEN Len(s) ELSE n)

\* the literal pieces of the f-string of one line, as characters
TitlePrefix == <<"T", "í", "t", "u", "l", "o", ":", " ">>

DescriptionPrefix ==
    <<" ", "-", " ", "D", "e", "s", "c", "r", "i", "p", "c", "i", "ó", "n", ":", " ">>

\* str(v) as an f-string interpolates it
Format(v) == IF IsStr(v) THEN v.str ELSE <<"N", "o", "n", "e">>

\* what evaluating the f-string on article a raises, "" if nothing
LineError(a) ==
    IF "title" \notin DOMAIN a THEN "KeyError"
    ELSE IF "description" \notin DOMAIN a THEN "KeyError"
    ELSE IF ~IsStr(a["description"]) THEN "TypeError"
    ELSE ""

\* f"Título: {article['title']} - Descripción: {article['description'][:100]}"
format_line(a) ==
    TitlePrefix \o Format(a["title"]) \o DescriptionPrefix
        \o Slice(a["description"].str, MaxDescriptionChars)

RECURSIVE Join(_, _)
\* sep.join(lines): the empty text for no line
Join(sep, lines) ==
    IF Len(lines) = 0 THEN <<>>
    ELSE IF Len(lines) = 1 THEN lines[1]
    ELSE lines[1] \o sep \o Join(sep, Tail(lines))

\* variant that takes every article: articles instead of articles[:10]
selected_articles_All(refs) == refs

\* articles[:10]
selected_articles(refs) == Slice(refs, MaxContextArticles)

\* "\n".join([f"..." for article in sel]): the first article on which the
\* f-string raises ends the call
context_of(h, sel) ==
    LET bad == {i \in 1..Len(sel) : LineError(h[sel[i]]) # ""}
    IN  IF bad # {}
        THEN Raise(LineError(h[sel[CHOOSE i \in bad : \A j \in bad : i <= j]]), <<>>)
        ELSE Return(PyStr(Join(<<"\n">>, [i \in 1..Len(sel) |-> format_line(h[sel[i]])])))

\* variant whose join starts from the first line and so needs one
build_context_NeedsFirst(h, refs) ==
    IF refs = <<>> THEN Raise("IndexError", <<>>)
    ELSE context_of(h, selected_articles(refs))

\* the context block of the call: built from articles[:10]
build_context(h, refs) == context_of(h, selected_articles(refs))

\* the prompt template around the context and the query: its literal pieces
\* and the two interpolated texts, in order
build_prompt(ctx, query) ==
    <<"\n        Basandote en estas noticias:\n        ", ctx,
      "\n        Pregunta: ", query,
      ". Responde de forma concisa en español\n    ">>

\* client.chat.completions.create(messages=[...], model=...)
chat_request(prompt) ==
    [messages |-> <<[role |-> "user", content |-> prompt]>>,
     model |-> "llama-3.3-70b-versatile"]

\* the function up to its request to the endpoint: the client library's
\* Groq(...) raises when no API key is to be had from the environment; then
\* the context, the prompt and the request
analyzer_begin(h, refs, query, key_set) ==
    IF ~key_set
    THEN [pc |-> "done", context |-> PyNone, requests |-> <<>>,
          outcome |-> Raise("GroqError", <<"api_key">>)]
    ELSE IF ~Returned(build_context(h, refs))
    THEN [pc |-> "done", context |-> PyNone, requests |-> <<>>,
          outcome |-> build_context(h, refs)]
    ELSE [pc |-> "create", context |-> build_context(h, refs).value,
          requests |-> <<chat_request(build_prompt(build_context(h, refs).value, query))>>,
          outcome |-> NoOutcome]

\* what the endpoint can answer: a completion with its choices' contents, or
\* an error of the client library
Replies ==
    { [kind |-> "completion", choices |-> c] : c \in {<<>>, <<"respuesta">>, <<"respuesta", "otra">>} }
    \cup { [kind |-> "error", exc |-> e] : e \in {"APIError", "AuthenticationError"} }

\* print(chat_completion.choices[0].message.content), then the implicit
\* return None
analyzer_end(reply) ==
    IF reply.kind = "error"
    THEN [stdout |-> <<>>, outcome |-> Raise(reply.exc, <<>>)]
    ELSE IF Len(reply.choices) = 0
    THEN [stdout |-> <<>>, outcome |-> Raise("IndexError", <<>>)]
    ELSE [stdout |-> <<reply.choices[1]>>, outcome |-> Return(PyNone)]

-----------------------------------------------------------------------------
(* A caller passes an article list and a query to the analysis forwarder.  *)

\* most articles in the list passed to the forwarder
MaxAnalyzed == 15

\* longest description of an article
MaxDescLen == 102

\* the decimal digits of i < 100, as characters
Digits(i) ==
    IF i < 10 THEN <<ToString(i)>> ELSE <<ToString(i \div 10), ToString(i % 10)>>

\* the i-th article's title, different for each i
TitleOf(i) == PyStr(<<"N">> \o Digits(i))

\* a description of n characters whose characters depend on the article and
\* on the position
DescriptionOf(i, n) == PyStr([j \in 1..n |-> <<"a", "b", "c", "d">>[((i + j) % 4) + 1]])

\* the description lengths of a list differ from article to article
DescLenOf(i, d) == (d + 7 * (i - 1)) % (MaxDescLen + 1)

AnalyzedArticle(i, d) ==
    [k \in {"title", "description"} |->
        IF k = "title" THEN TitleOf(i) ELSE DescriptionOf(i, DescLenOf(i, d))]

\* an article without title, without description, or with a null description
\* (as providers send for a missing summary)
FlawedArticle(i, flaw) ==
    CASE flaw = "no_title" -> [k \in {"description"} |-> DescriptionOf(i, 3)]
      [] flaw = "no_description" -> [k \in {"title"} |-> TitleOf(i)]
      [] flaw = "null_description" ->
            [k \in {"title", "description"} |->
                IF k = "title" THEN TitleOf(i) ELSE PyNone]

\* the lists: n well-formed articles, or n articles of which one is flawed
AnalyzedLists ==
    { [i \in 1..n |-> AnalyzedArticle(i, d)] : n \in 0..MaxAnalyzed, d \in 0..MaxDescLen }
    \cup UNION { { [i \in 1..n |-> IF i = f THEN FlawedArticle(i, flaw)
                                  ELSE AnalyzedArticle(i, 3)] :
                    f \in 1..n, flaw \in {"no_title", "no_description", "null_description"} } :
                 n \in 1..MaxAnalyzed }

AnalyzerQueries == { <<"r", "e", "s", "u", "m", "e">>, <<>> }

InitAnalyze ==
    /\ pc = "idle"
    /\ call = NoCall
    /\ invoked = <<>>
    /\ requests = <<>>
    /\ answers = <<>>
    /\ outcome = NoOutcome
    /\ heap \in AnalyzedLists
    /\ articles = [i \in 1..Len(heap) |-> i]
    /\ text = <<>>
    /\ context = PyNone
    /\ stdout = <<>>

AnalyzerBegin(module) ==
    /\ pc = "idle"
    /\ \E query \in AnalyzerQueries, key_set \in BOOLEAN :
          LET r == analyzer_begin(heap, articles, query, key_set)
          IN  /\ call' = [fn |-> "analyzer_articles_whit_ai", module |-> module,
                          query |-> query, key_set |-> key_set]
              /\ pc' = r.pc
              /\ context' = r.context
              /\ requests' = r.requests
              /\ outcome' = r.outcome
    /\ answers' = <<>>
    /\ stdout' = <<>>
    /\ UNCHANGED <<invoked, heap, articles, text>>

\* a caller calls groqai.analyzer_articles_whit_ai(articles, query)
GroqAnalyze == AnalyzerBegin("groqai")

\* a caller calls openai.analyzer_articles_whit_ai(articles, query)
OpenaiAnalyze == AnalyzerBegin("openai")

\* the endpoint answers the request and the function runs to its end
ChatCompletion ==
    /\ pc = "create"
    /\ \E reply \in Replies :
          /\ answers' = <<reply>>
          /\ stdout' = analyzer_end(reply).stdout
          /\ outcome' = analyzer_end(reply).outcome
    /\ pc' = "done"
    /\ UNCHANGED <<call, invoked, requests, heap, articles, text, context>>

\* the caller is free to call again
AnalyzeOver ==
    /\ pc = "done"
    /\ pc' = "idle"
    /\ call' = NoCall
    /\ requests' = <<>>
    /\ answers' = <<>>
    /\ outcome' = NoOutcome
    /\ context' = PyNone
    /\ stdout' = <<>>
    /\ UNCHANGED <<invoked, heap, articles, text>>

NextAnalyze == GroqAnalyze \/ OpenaiAnalyze \/ ChatCompletion \/ AnalyzeOver

SpecAnalyze == InitAnalyze /\ [][NextAnalyze]_vars

-----------------------------------------------------------------------------
(* Claims about the analysis forwarder.                                    *)

\* the call of the forwarder that is running or has ended
Analyzing == call.fn = "analyzer_articles_whit_ai"

RECURSIVE SplitLines(_)
\* the lines of a non-empty text: its pieces between newline characters
SplitLines(s) ==
    LET breaks == {i \in 1..Len(s) : s[i] = "\n"}
    IN  IF breaks = {} THEN <<s>>
        ELSE LET b == CHOOSE i \in breaks : \A j \in breaks : i <= j
             IN  <<SubSeq(s, 1, b - 1)>> \o SplitLines(SubSeq(s, b + 1, Len(s)))

\* how many of the list's articles are within the first ten
FirstTen == IF Len(articles) < 10 THEN Len(articles) ELSE 10

\* the article has a title and a text description
HasTitleAndDescription(a) ==
    /\ "title" \in DOMAIN a
    /\ "description" \in DOMAIN a
    /\ IsStr(a["description"])

\* the line the claim expects for article a: its title and at most the first
\* 100 characters of its description
ExpectedLine(a) ==
    LET d == a["description"].str
    IN  TitlePrefix \o a["title"].str \o DescriptionPrefix
            \o [j \in 1..(IF Len(d) < 100 THEN Len(d) ELSE 100) |-> d[j]]

\* C11: for a list of any length the context block has one line for each of
\* the first min(10, length) articles, in input order, each with at most the
\* first 100 characters of the description; the articles after the tenth have
\* no influence: the context is built whenever the first ten are well-formed.
C11_ContextFromFirstTen ==
    Analyzing =>
        /\ IsStr(context) =>
              IF FirstTen = 0 THEN context.str = <<>>
              ELSE LET lines == SplitLines(context.str)
                   IN  /\ Len(lines) = FirstTen
                       /\ \A i \in 1..FirstTen :
                             lines[i] = ExpectedLine(heap[articles[i]])
        /\ (call.key_set /\ \A i \in 1..FirstTen :
                                HasTitleAndDescription(heap[articles[i]]))
              => IsStr(context)

C11_Witness ==
    /\ Analyzing /\ IsStr(context)
    /\ Len(articles) = 15
    /\ HasTitleAndDescription(heap[1])
    /\ Len(heap[1]["description"].str) = 102
    /\ Len(SplitLines(context.str)) = 10
    /\ SplitLines(context.str)[1] = ExpectedLine(heap[1])

====
